---- MODULE Spec2Model ----
(***************************************************************************)
(* Patent search engine: index construction (index.py) and query scoring   *)
(* with classification-based expansion (search.py).                        *)
(*                                                                         *)
(* Strings that the program inspects character by character (document     *)
(* names, the postings file) are sequences of one-character strings.       *)
(* Terms and classification codes are only compared for equality and are   *)
(* plain strings.                                                          *)
(*                                                                         *)
(* A Python float is a fixed-point number [h, l] of value                  *)
(* h * 10^-4 + l * 10^-12 with 0 <= l < 10^8: twelve fractional digits, so *)
(* that formatting with nine digits loses information as it does for a     *)
(* double.  Addition and subtraction are exact; products, quotients and    *)
(* square roots are rounded down to four fractional digits.                *)
(***************************************************************************)
EXTENDS Integers, Sequences, FiniteSets, TLC

\* ------------------------------------------------------------------ bounds
MaxDocs == 2          \* members of the document directory
MaxCorpusTokens == 3  \* normalized tokens in the whole corpus
MaxQueryTokens == 2   \* normalized tokens of the query, both fields together
MaxPermKeys == 3      \* dicts up to this size are iterated in every order
MaxSpecial == 1       \* documents that stand out in a large ranking
MaxRepeatTokens == 3  \* tokens of a one-field query that repeats a term

\* ------------------------------------------------------- program constants
FracDigits == 9       \* "%.9f" in write_postings
TopN == 20            \* sorted_docIDs[:20] in expand_query

\* -------------------------------------------------------------- characters
Digits == <<"0", "1", "2", "3", "4", "5", "6", "7", "8", "9">>

DigitChar(d) == Digits[d + 1]

IsDigit(c) == c \in {"0", "1", "2", "3", "4", "5", "6", "7", "8", "9"}

DigitVal(c) ==
  CASE c = "0" -> 0 [] c = "1" -> 1 [] c = "2" -> 2 [] c = "3" -> 3
    [] c = "4" -> 4 [] c = "5" -> 5 [] c = "6" -> 6 [] c = "7" -> 7
    [] c = "8" -> 8 [] c = "9" -> 9

\* Byte value of a character (str comparison in Python 2 is bytewise).
Ord(c) ==
  CASE c = "\n" -> 10
    [] c = " " -> 32
    [] c = "," -> 44
    [] c = "." -> 46
    [] OTHER -> 48 + DigitVal(c)

IsSpace(c) == c \in {" ", "\n"}

\* a < b for Python 2 str objects: lexicographic on bytes.
StrLess(a, b) ==
  \E k \in 1..Len(b) :
    /\ \A j \in 1..(k - 1) : j <= Len(a) /\ a[j] = b[j]
    /\ \/ k > Len(a)
       \/ k <= Len(a) /\ Ord(a[k]) < Ord(b[k])

RECURSIVE LeastName(_)
\* The least element of a non-empty set of str objects.
LeastName(S) ==
  LET x == CHOOSE y \in S : TRUE
  IN  IF S = {x} THEN x
      ELSE LET m == LeastName(S \ {x})
           IN  IF StrLess(x, m) THEN x ELSE m

RECURSIVE SortedNames(_)
\* sorted(names) for a collection of distinct str objects.
SortedNames(S) ==
  IF S = {} THEN <<>>
  ELSE LET m == LeastName(S)
       IN  <<m>> \o SortedNames(S \ {m})

RECURSIVE NatToChars(_)
\* "%d" % n for n >= 0.
NatToChars(n) ==
  IF n < 10 THEN <<DigitChar(n)>>
  ELSE NatToChars(n \div 10) \o <<DigitChar(n % 10)>>

RECURSIVE PadLeft(_, _)
\* s zero-padded on the left to width w.
PadLeft(s, w) == IF Len(s) >= w THEN s ELSE PadLeft(<<"0">> \o s, w)

RECURSIVE JoinSeqs(_, _)
\* sep.join(parts) for a sequence of character sequences.
JoinSeqs(parts, sep) ==
  IF Len(parts) = 0 THEN <<>>
  ELSE IF Len(parts) = 1 THEN parts[1]
  ELSE parts[1] \o sep \o JoinSeqs(Tail(parts), sep)

\* ------------------------------------------------------------------ floats
HUnit == 10^4
LUnit == 10^8

Float(hh, ll) == [h |-> hh, l |-> ll]
FZero == Float(0, 0)
FOne == Float(HUnit, 0)

IsFloat(x) == DOMAIN x = {"h", "l"}

FAdd(a, b) ==
  LET s == a.l + b.l
  IN  Float(a.h + b.h + s \div LUnit, s % LUnit)

\* a - b for a >= b.
FSub(a, b) ==
  IF a.l >= b.l THEN Float(a.h - b.h, a.l - b.l)
  ELSE Float(a.h - b.h - 1, a.l + LUnit - b.l)

FMul(a, b) == Float((a.h * b.h) \div HUnit, 0)

\* a / b for b.h # 0.
FDiv(a, b) == Float((a.h * HUnit) \div b.h, 0)

FLess(a, b) == a.h < b.h \/ (a.h = b.h /\ a.l < b.l)

RECURSIVE ISqrtIn(_, _, _)
\* The largest r in lo..hi with r * r <= n.
ISqrtIn(n, lo, hi) ==
  IF lo >= hi THEN lo
  ELSE LET mid == (lo + hi + 1) \div 2
       IN  IF mid * mid <= n THEN ISqrtIn(n, mid, hi)
           ELSE ISqrtIn(n, lo, mid - 1)

FSqrt(a) == Float(ISqrtIn(a.h * HUnit, 0, 46340), 0)

\* math.log10(n) for a positive integer n, twelve digits.
Log10(n) ==
  CASE n = 1 -> Float(0, 0)
    [] n = 2 -> Float(3010, 29995663)
    [] n = 3 -> Float(4771, 21254719)
    [] n = 4 -> Float(6020, 59991327)
    [] n = 5 -> Float(6989, 70004336)
    [] n = 6 -> Float(7781, 51250383)
    [] n = 7 -> Float(8450, 98040014)
    [] n = 8 -> Float(9030, 89986991)
    [] n = 9 -> Float(9542, 42509439)
    [] n = 10 -> Float(10000, 0)

\* "%.9f" % x: the integer part, a point and FracDigits digits, rounded.
FormatFloat(x) ==
  LET guardUnit == 10^(12 - FracDigits)
      fracUnit == 10^FracDigits
      frac0 == (x.h % HUnit) * (LUnit \div guardUnit) + (x.l \div guardUnit)
      up == IF 2 * (x.l % guardUnit) >= guardUnit THEN 1 ELSE 0
      frac == (frac0 + up) % fracUnit
      ip == (x.h \div HUnit) + ((frac0 + up) \div fracUnit)
  IN  NatToChars(ip) \o <<".">> \o PadLeft(NatToChars(frac), FracDigits)

RECURSIVE DigitsToNat(_)
\* The number written by a sequence of digits (0 for the empty sequence).
DigitsToNat(s) ==
  IF Len(s) = 0 THEN 0
  ELSE 10 * DigitsToNat(SubSeq(s, 1, Len(s) - 1)) + DigitVal(s[Len(s)])

RECURSIVE PadRight(_, _)
PadRight(s, w) == IF Len(s) >= w THEN s ELSE PadRight(s \o <<"0">>, w)

\* The outcome of a call: the value it returns, or the exception it raises.
Ok(v) == [error |-> "", val |-> v]
Raise(e) == [error |-> e, val |-> <<>>]
IsError(x) == x.error # ""

\* float(s) for s made of digits, points and commas: digits with at most
\* one point and at least one digit, anything else raises ValueError.
ParseFloat(s) ==
  LET points == {i \in 1..Len(s) : s[i] = "."}
      wellFormed == /\ \A i \in 1..Len(s) : IsDigit(s[i]) \/ s[i] = "."
                    /\ Cardinality(points) <= 1
                    /\ \E i \in 1..Len(s) : IsDigit(s[i])
      p == IF points = {} THEN Len(s) + 1 ELSE CHOOSE i \in points : TRUE
      whole == SubSeq(s, 1, p - 1)
      fracs == PadRight(SubSeq(s, p + 1, Len(s)), 12)
  IN  IF ~wellFormed THEN Raise("ValueError")
      ELSE Ok(Float(DigitsToNat(whole) * HUnit + DigitsToNat(SubSeq(fracs, 1, 4)),
                    DigitsToNat(SubSeq(fracs, 5, 12))))

\* ------------------------------------------------------------ input sets
Terms == {"alpha", "beta"}
Codes == {"A", "B"}
DocNames == <<<<"1">>, <<"1", ",", "1">>, <<"2">>>>

\* A member of the document directory: a sub-directory, a file that Patent
\* cannot parse, or a patent given by what get_doc_content returns for it
\* (the normalized Title and Abstract tokens and the "IPC Class" text).
Dir == [kind |-> "dir"]
Malformed == [kind |-> "malformed"]
Patent(t, a, c) == [kind |-> "patent", Title |-> t, Abstract |-> a, IPC |-> c]

TokenSeqs(n) == UNION {[1..k -> Terms] : k \in 0..n}

\* The members with exactly k tokens.
Members(k) ==
  (IF k = 0 THEN {Dir, Malformed} ELSE {})
  \cup UNION {{Patent(t, a, c) :
                 t \in [1..n -> Terms], a \in [1..(k - n) -> Terms], c \in Codes} :
              n \in 0..k}

\* What a name of DocNames stands for: a member, or nothing.
Absent == [kind |-> "absent"]
Slot(k) == Members(k) \cup (IF k = 0 THEN {Absent} ELSE {})

\* The directory whose i-th name of DocNames stands for slots[i].
DirectoryOf(slots) ==
  [n \in {DocNames[i] : i \in {j \in 1..Len(DocNames) : slots[j].kind # "absent"}} |->
     slots[CHOOSE i \in 1..Len(DocNames) : DocNames[i] = n]]

\* files is a directory of at most MaxDocs members named in DocNames, with at
\* most MaxCorpusTokens tokens in all.
IsCorpus(dir) ==
  \E k1 \in 0..MaxCorpusTokens : \E m1 \in Slot(k1) :
    \E k2 \in 0..(MaxCorpusTokens - k1) : \E m2 \in Slot(k2) :
      \E k3 \in 0..(MaxCorpusTokens - k1 - k2) : \E m3 \in Slot(k3) :
        /\ Cardinality({i \in 1..3 : <<m1, m2, m3>>[i].kind # "absent"}) <= MaxDocs
        /\ dir = DirectoryOf(<<m1, m2, m3>>)

Queries ==
  UNION {{[title |-> t, description |-> d] :
            d \in TokenSeqs(MaxQueryTokens - Len(t))} :
         t \in TokenSeqs(MaxQueryTokens)}

RepeatQueries ==
  {[title |-> t, description |-> <<>>] : t \in TokenSeqs(MaxRepeatTokens)}
  \cup {[title |-> <<>>, description |-> d] : d \in TokenSeqs(MaxRepeatTokens)}

\* The orders in which a dict with these keys may be iterated.
Perms(S) ==
  {s \in [1..Cardinality(S) -> S] : \A i, j \in 1..Cardinality(S) : s[i] = s[j] => i = j}

Range(s) == {s[i] : i \in 1..Len(s)}

Reverse(s) == [i \in 1..Len(s) |-> s[Len(s) + 1 - i]]

\* The iteration orders of a Python 2 dict with these docID keys: any order
\* for a small dict, the ascending and the descending one for a large dict.
DictOrders(S) ==
  IF Cardinality(S) <= MaxPermKeys THEN Perms(S)
  ELSE LET ascending == SortedNames(S)
       IN  {ascending, Reverse(ascending)}

\* ------------------------------------------------------------------- index
\* Mutant: the member names are not sorted.
load_all_doc_names_unsorted(dir) ==
  LET isfile(name) == dir[name].kind # "dir"
  IN  SelectSeq(Reverse(SortedNames(DOMAIN dir)), isfile)

\* load_all_doc_names: the sorted member names that are files.
load_all_doc_names(dir) ==
  LET isfile(name) == dir[name].kind # "dir"
  IN  SelectSeq(SortedNames(DOMAIN dir), isfile)

RECURSIVE AppendPostings(_, _, _)
\* The loop of index_doc over the words of one field.
AppendPostings(words, docID, postings_list) ==
  IF Len(words) = 0 THEN postings_list
  ELSE LET word == words[1]
           next == IF word \in DOMAIN postings_list
                   THEN [postings_list EXCEPT ![word] = Append(@, docID)]
                   ELSE (word :> <<docID>>) @@ postings_list
       IN  AppendPostings(Tail(words), docID, next)

\* Mutant: the weight ignores the term frequency.
lnc_from_tf_no_log(tf) == FOne

lnc_from_tf(tf) == FAdd(FOne, Log10(tf))

RECURSIVE RunLength(_)
\* Length of the run of equal elements that starts the sequence.
RunLength(ids) ==
  IF Len(ids) <= 1 THEN Len(ids)
  ELSE IF ids[2] = ids[1] THEN 1 + RunLength(Tail(ids)) ELSE 1

RECURSIVE GroupDocIDs(_)
\* [(docID, lnc_from_tf(len(list(group)))) for docID, group in groupby(docIDs)]
GroupDocIDs(ids) ==
  IF Len(ids) = 0 THEN <<>>
  ELSE LET k == RunLength(ids)
       IN  <<<<ids[1], lnc_from_tf(k)>>>> \o GroupDocIDs(SubSeq(ids, k + 1, Len(ids)))

convert_preliminary_postings(preliminary_postings) ==
  [word \in DOMAIN preliminary_postings |-> GroupDocIDs(preliminary_postings[word])]

RECURSIVE SumSquaresSeq(_, _)
SumSquaresSeq(postings, docID) ==
  IF Len(postings) = 0 THEN FZero
  ELSE LET rest == SumSquaresSeq(Tail(postings), docID)
       IN  IF postings[1][1] = docID
           THEN FAdd(FMul(postings[1][2], postings[1][2]), rest)
           ELSE rest

RECURSIVE SumSquares(_, _, _)
\* sum_squares[docID] after the loops over the terms of a field.
SumSquares(postings_list, terms, docID) ==
  IF terms = {} THEN FZero
  ELSE LET term == CHOOSE t \in terms : TRUE
       IN  FAdd(SumSquaresSeq(postings_list[term], docID),
                SumSquares(postings_list, terms \ {term}, docID))

\* The keys of a defaultdict filled from the postings of a field.
PostedDocs(postings_list) ==
  UNION {{postings_list[t][i][1] : i \in 1..Len(postings_list[t])} :
         t \in DOMAIN postings_list}

\* calculate_metadata: docID -> (title length, abstract length, IPC), or
\* KeyError when title_lengths has no entry for a document of IPC_dict.
calculate_metadata(tpl, apl, ipcs) ==
  LET title_lengths ==
        [d \in PostedDocs(tpl) |-> FSqrt(SumSquares(tpl, DOMAIN tpl, d))]
      abstract_lengths ==
        [d \in PostedDocs(apl) |-> FSqrt(SumSquares(apl, DOMAIN apl, d))]
  IN  IF \E d \in DOMAIN ipcs : d \notin DOMAIN title_lengths
      THEN Raise("KeyError")
      ELSE Ok([d \in DOMAIN ipcs |->
                 <<title_lengths[d],
                   IF d \in DOMAIN abstract_lengths THEN abstract_lengths[d] ELSE FZero,
                   ipcs[d]>>])

\* Mutant: the document frequency is left out.
idf_docs_no_df(df, N) == Log10(N)

\* log10(float(big_N) / df), as log10(big_N) - log10(df).
idf_docs(df, N) == FSub(Log10(N), Log10(df))

\* " ".join([",".join([docID, "%.9f" % weight]) for docID, weight in postings])
PostingsRecord(postings) ==
  JoinSeqs([i \in 1..Len(postings) |->
              postings[i][1] \o <<",">> \o FormatFloat(postings[i][2])],
           <<" ">>)

RECURSIVE WriteField_with_newline(_, _, _, _, _)
\* Mutant: the length is taken after the line break is written.
WriteField_with_newline(postings_list, order, file, entries, N) ==
  IF Len(order) = 0 THEN [file |-> file, entries |-> entries]
  ELSE LET term == order[1]
           posting_pointer == Len(file)
           written == file \o PostingsRecord(postings_list[term]) \o <<"\n">>
           write_length == Len(written) - posting_pointer
           entry == <<posting_pointer, write_length,
                      idf_docs(Len(postings_list[term]), N)>>
       IN  WriteField_with_newline(postings_list, Tail(order), written,
                                   (term :> entry) @@ entries, N)

RECURSIVE WriteField(_, _, _, _, _)
\* One loop of write_postings: the terms of a field in iteration order.
\* Returns the file contents and the field's directory.
WriteField(postings_list, order, file, entries, N) ==
  IF Len(order) = 0 THEN [file |-> file, entries |-> entries]
  ELSE LET term == order[1]
           posting_pointer == Len(file)
           written == file \o PostingsRecord(postings_list[term])
           write_length == Len(written) - posting_pointer
           entry == <<posting_pointer, write_length,
                      idf_docs(Len(postings_list[term]), N)>>
       IN  WriteField(postings_list, Tail(order), written \o <<"\n">>,
                      (term :> entry) @@ entries, N)

write_postings(tpl, apl, title_order, abstract_order, N) ==
  LET t == WriteField(tpl, title_order, <<>>, <<>>, N)
      a == WriteField(apl, abstract_order, t.file, <<>>, N)
  IN  [file |-> a.file,
       dict_terms |-> [Title |-> t.entries, Abstract |-> a.entries]]

\* ------------------------------------------------------------------ search
RECURSIVE SplitSpace(_)
\* s.split(): the maximal runs of non-whitespace characters.
SplitSpace(s) ==
  IF Len(s) = 0 THEN <<>>
  ELSE IF IsSpace(s[1]) THEN SplitSpace(Tail(s))
  ELSE LET ends == {i \in 1..Len(s) : IsSpace(s[i])}
           stop == IF ends = {} THEN Len(s) + 1
                   ELSE CHOOSE i \in ends : \A j \in ends : i <= j
       IN  <<SubSeq(s, 1, stop - 1)>> \o SplitSpace(SubSeq(s, stop, Len(s)))

RECURSIVE SplitComma(_)
\* s.split(","): the pieces between commas, empty pieces included.
SplitComma(s) ==
  LET commas == {i \in 1..Len(s) : s[i] = ","}
  IN  IF commas = {} THEN <<s>>
      ELSE LET c == CHOOSE i \in commas : \A j \in commas : i <= j
           IN  <<SubSeq(s, 1, c - 1)>> \o SplitComma(SubSeq(s, c + 1, Len(s)))

RECURSIVE ParsePostings(_)
\* [docID_and_tf[0], float(docID_and_tf[1])] for each split token, in order;
\* the first token that cannot be converted raises.
ParsePostings(tokens) ==
  IF Len(tokens) = 0 THEN Ok(<<>>)
  ELSE LET pieces == SplitComma(tokens[1])
           weight == ParseFloat(pieces[2])
           rest == ParsePostings(Tail(tokens))
       IN  IF Len(pieces) < 2 THEN Raise("IndexError")
           ELSE IF IsError(weight) THEN weight
           ELSE IF IsError(rest) THEN rest
           ELSE Ok(<<<<pieces[1], weight.val>>>> \o rest.val)

Min(a, b) == IF a <= b THEN a ELSE b

\* Mutant: the directory is indexed without the membership test.
read_postings_unguarded(term, dictionary, file, field) ==
  IF term \in DOMAIN dictionary[field]
  THEN LET term_pointer == dictionary[field][term][1]
           postings_length == dictionary[field][term][2]
           data == SubSeq(file, term_pointer + 1,
                          Min(term_pointer + postings_length, Len(file)))
       IN  ParsePostings(SplitSpace(data))
  ELSE Raise("KeyError")

\* read_postings: seek, read postings_length bytes, split and convert.
read_postings(term, dictionary, file, field) ==
  IF term \in DOMAIN dictionary[field]
  THEN LET term_pointer == dictionary[field][term][1]
           postings_length == dictionary[field][term][2]
           data == SubSeq(file, term_pointer + 1,
                          Min(term_pointer + postings_length, Len(file)))
       IN  ParsePostings(SplitSpace(data))
  ELSE Ok(<<>>)

CountOf(term, query_terms) ==
  Cardinality({i \in 1..Len(query_terms) : query_terms[i] = term})

RECURSIVE AddPostings(_, _, _, _)
\* The loop of update_relevance over the postings of one term.
AddPostings(doc_scores, postings, weight_of_term_in_query, single_term_query) ==
  IF Len(postings) = 0 THEN doc_scores
  ELSE LET docID == postings[1][1]
           tf_in_doc == postings[1][2]
           old == IF docID \in DOMAIN doc_scores THEN doc_scores[docID] ELSE FZero
           new == IF single_term_query THEN FAdd(old, tf_in_doc)
                  ELSE FAdd(old, FMul(tf_in_doc, weight_of_term_in_query))
           next == IF docID \in DOMAIN doc_scores
                   THEN [doc_scores EXCEPT ![docID] = new]
                   ELSE (docID :> new) @@ doc_scores
       IN  AddPostings(next, Tail(postings), weight_of_term_in_query, single_term_query)

update_relevance(doc_scores, dictionary, file, query_terms, term, single_term_query, field) ==
  LET postings == read_postings(term, dictionary, file, field)
      tf_in_query == CountOf(term, query_terms)
      weight_of_term_in_query ==
        IF single_term_query \/ Len(postings.val) = 0 THEN FOne
        ELSE FMul(FAdd(FOne, Log10(tf_in_query)), dictionary[field][term][3])
  IN  IF IsError(postings) THEN postings
      ELSE Ok(AddPostings(doc_scores, postings.val, weight_of_term_in_query,
                          single_term_query))

RECURSIVE AccumulateField(_, _, _, _, _, _)
\* for term in terms: scores = update_relevance(scores, ..., term, ...)
AccumulateField(doc_scores, dictionary, file, query_terms, todo, field) ==
  IF Len(todo) = 0 THEN Ok(doc_scores)
  ELSE LET next == update_relevance(doc_scores, dictionary, file, query_terms,
                                    todo[1], Len(query_terms) = 1, field)
       IN  IF IsError(next) THEN next
           ELSE AccumulateField(next.val, dictionary, file, query_terms,
                                Tail(todo), field)

\* The errors the loop "scores[docID] /= docs_metadata[str(docID)][col]" can
\* stop with; which one is met first depends on the iteration order.
NormErrors(scores, docs_metadata, col) ==
  {"KeyError" : d \in {x \in DOMAIN scores : x \notin DOMAIN docs_metadata}}
  \cup {"ZeroDivisionError" :
          d \in {x \in DOMAIN scores :
                   x \in DOMAIN docs_metadata /\ docs_metadata[x][col] = FZero}}

NormalizeField(scores, docs_metadata, col) ==
  [d \in DOMAIN scores |-> FDiv(scores[d], docs_metadata[d][col])]

TitleWeight == Float(500, 0)
DescriptionWeight == Float(9500, 0)

Get(scores, docID) == IF docID \in DOMAIN scores THEN scores[docID] ELSE FZero

\* Mutant: only the documents that have a field score are combined.
CombineScores_scored_only(t_scores, d_scores, metadata) ==
  [d \in DOMAIN t_scores \cup DOMAIN d_scores |->
     FAdd(FMul(Get(t_scores, d), TitleWeight),
          FMul(Get(d_scores, d), DescriptionWeight))]

CombineScores(title_scores, description_scores, docs_metadata) ==
  [d \in DOMAIN docs_metadata |->
     FAdd(FMul(Get(title_scores, d), TitleWeight),
          FMul(Get(description_scores, d), DescriptionWeight))]

RECURSIVE InsertDescending(_, _, _)
\* entry placed after every entry whose score is not smaller.
InsertDescending(sorted, entry, score) ==
  IF Len(sorted) = 0 THEN <<entry>>
  ELSE IF FLess(score[sorted[1]], score[entry]) THEN <<entry>> \o sorted
  ELSE <<sorted[1]>> \o InsertDescending(Tail(sorted), entry, score)

RECURSIVE SortDescending(_, _)
\* sorted(entries, key=score, reverse=True): stable, entries of equal score
\* keep their order.
SortDescending(entries, score) ==
  IF Len(entries) = 0 THEN <<>>
  ELSE InsertDescending(SortDescending(SubSeq(entries, 1, Len(entries) - 1), score),
                        entries[Len(entries)], score)

\* docIDs_decreasing_score, the items of doc_scores met in this order.
docIDs_decreasing_score(doc_scores, order) == SortDescending(order, doc_scores)

\* Mutant: the classes are taken from the whole ranking.
expand_query_untruncated(sorted_docIDs, scores, metadata, order) ==
  LET top_20_IPCs == {metadata[sorted_docIDs[i]][3] : i \in 1..Len(sorted_docIDs)}
      inIPCs(docID) == metadata[docID][3] \in top_20_IPCs
      docs_in_IPCs == SelectSeq(order, inIPCs)
      docs_IPCs_scores == [d \in Range(docs_in_IPCs) |-> Get(scores, d)]
  IN  SortDescending(docs_in_IPCs, docs_IPCs_scores)

\* Mutant: the candidates are returned in the order they were met.
expand_query_unsorted(sorted_docIDs, scores, metadata, order) ==
  LET top_20_docIDs == SubSeq(sorted_docIDs, 1, Min(TopN, Len(sorted_docIDs)))
      top_20_IPCs == {metadata[top_20_docIDs[i]][3] : i \in 1..Len(top_20_docIDs)}
      inIPCs(docID) == metadata[docID][3] \in top_20_IPCs
  IN  SelectSeq(order, inIPCs)

\* expand_query, the items of docs_metadata met in this order.
expand_query(sorted_docIDs, doc_scores, docs_metadata, order) ==
  LET top_20_docIDs == SubSeq(sorted_docIDs, 1, Min(TopN, Len(sorted_docIDs)))
      top_20_IPCs == {docs_metadata[top_20_docIDs[i]][3] : i \in 1..Len(top_20_docIDs)}
      inIPCs(docID) == docs_metadata[docID][3] \in top_20_IPCs
      docs_in_IPCs == SelectSeq(order, inIPCs)
      docs_IPCs_scores == [d \in Range(docs_in_IPCs) |-> Get(doc_scores, d)]
  IN  SortDescending(docs_in_IPCs, docs_IPCs_scores)

\* docID[:-4]
DropSuffix(docID) == SubSeq(docID, 1, Len(docID) - 4)

OutputLine(expanded_results) ==
  JoinSeqs([i \in 1..Len(expanded_results) |-> DropSuffix(expanded_results[i])],
           <<" ">>) \o <<"\n">>

\* ------------------------------------------------------------------- state
VARIABLES
  files,            \* the document directory: member name -> member
  pc,               \* position: in main of index.py, then in process_queries
  err,              \* the exception that ended the run, "" if none
  docs,             \* index.py main: the list from load_all_doc_names
  big_N,            \* index.py main: len(docs)
  idx,              \* index_all_docs: position of the loop over docs
  title_postings_list,     \* term -> docIDs, one per occurrence
  abstract_postings_list,
  IPC_dict,                \* docID -> IPC Class
  converted_title_postings_list,      \* term -> (docID, weight) list
  converted_abstract_postings_list,
  docs_metadata,    \* docID -> (title length, abstract length, IPC)
  title_order,      \* the order write_postings met the Title terms in
  abstract_order,   \* the order write_postings met the Abstract terms in
  dict_terms,       \* field -> term -> (pointer, length, idf)
  disk,             \* the output files that exist
  postings_file,    \* contents of the postings file
  dict_file,        \* contents of the dictionary file: (docs_metadata, dict_terms)
  query,            \* the normalized title and description tokens of the query
  title_acc,        \* title_scores before the division by the norms
  title_scores,
  description_acc,  \* description_scores before the division by the norms
  description_scores,
  doc_scores,
  results,
  expanded_results,
  output            \* contents of the output file

buildVars == <<docs, big_N, idx, title_postings_list, abstract_postings_list,
               IPC_dict, converted_title_postings_list,
               converted_abstract_postings_list, docs_metadata, title_order,
               abstract_order, dict_terms, disk, postings_file, dict_file>>
scoreVars == <<query, title_acc, title_scores, description_acc,
               description_scores, doc_scores>>
rankVars == <<results, expanded_results, output>>
vars == <<files, pc, err, buildVars, scoreVars, rankVars>>

NoQuery == [title |-> <<>>, description |-> <<>>]

BlankBuild ==
  /\ err = ""
  /\ docs = <<>> /\ big_N = 0 /\ idx = 1
  /\ title_postings_list = <<>> /\ abstract_postings_list = <<>>
  /\ IPC_dict = <<>>
  /\ converted_title_postings_list = <<>>
  /\ converted_abstract_postings_list = <<>>
  /\ docs_metadata = <<>>
  /\ title_order = <<>> /\ abstract_order = <<>>
  /\ dict_terms = [Title |-> <<>>, Abstract |-> <<>>]
  /\ postings_file = <<>>

BlankScore ==
  /\ query = NoQuery
  /\ title_acc = <<>> /\ title_scores = <<>>
  /\ description_acc = <<>> /\ description_scores = <<>>

BlankRank == results = <<>> /\ expanded_results = <<>> /\ output = <<>>

\* index.py starts on a document directory; nothing has been written.
Init ==
  /\ IsCorpus(files)
  /\ pc = "load"
  /\ BlankBuild /\ disk = {}
  /\ dict_file = <<<<>>, [Title |-> <<>>, Abstract |-> <<>>]>>
  /\ BlankScore /\ doc_scores = <<>>
  /\ BlankRank

\* The same, over the directories whose patents all carry one IPC Class
\* (scoring never reads the class).
OneClass(dir) == \A n \in DOMAIN dir : dir[n].kind = "patent" => dir[n].IPC = "A"

InitScore == Init /\ OneClass(files)

\* "%02d" % i: the name of the i-th document of a large corpus.
NameOfIndex(i) == PadLeft(NatToChars(i), 2)

RECURSIVE SubsetsUpTo(_, _)
\* The subsets of S with at most k elements.
SubsetsUpTo(S, k) ==
  IF k = 0 THEN {{}}
  ELSE LET r == SubsetsUpTo(S, k - 1)
       IN  r \cup {x \cup {e} : x \in r, e \in S}

LargeSizes == {TopN - 1, TopN, TopN + 1}
BaseScore == Float(2500, 0)
SpecialScores == {FZero, BaseScore, Float(5000, 0)}

\* process_queries at line 172 over a large corpus: every document has
\* class "A" and score 0.25 except a few, which have class "B" and a score
\* below, at or above 0.25.
InitLarge ==
  \E n \in LargeSizes :
    \E S \in SubsetsUpTo(1..n, MaxSpecial) :
      \E sc \in [S -> SpecialScores] :
        /\ doc_scores = [d \in {NameOfIndex(i) : i \in 1..n} |->
                           LET i == CHOOSE j \in 1..n : NameOfIndex(j) = d
                           IN  IF i \in S THEN sc[i] ELSE BaseScore]
        /\ dict_file =
             <<[d \in {NameOfIndex(i) : i \in 1..n} |->
                  LET i == CHOOSE j \in 1..n : NameOfIndex(j) = d
                  IN  <<FOne, FOne, IF i \in S THEN "B" ELSE "A">>],
               [Title |-> <<>>, Abstract |-> <<>>]>>
        /\ files = <<>>
        /\ pc = "scored"
        /\ BlankBuild /\ disk = {"postings", "dictionary"}
        /\ BlankScore
        /\ BlankRank

\* ---------------------------------------------------------- index.py main
\* docs = load_all_doc_names(docs_dir); big_N = len(docs)
LoadAllDocNames ==
  /\ pc = "load"
  /\ docs' = load_all_doc_names(files)
  /\ big_N' = Len(docs')
  /\ idx' = 1
  /\ pc' = "index"
  /\ UNCHANGED <<files, err, title_postings_list, abstract_postings_list,
                 IPC_dict, converted_title_postings_list,
                 converted_abstract_postings_list, docs_metadata, title_order,
                 abstract_order, dict_terms, disk, postings_file, dict_file,
                 scoreVars, rankVars>>

\* Mutant: a document that does not parse is skipped.
IndexDoc_skip_malformed ==
  /\ pc = "index"
  /\ idx <= Len(docs)
  /\ LET docID == docs[idx]
         p == files[docID]
     IN  IF p.kind = "malformed"
         THEN /\ idx' = idx + 1
              /\ UNCHANGED <<pc, err, title_postings_list,
                             abstract_postings_list, IPC_dict>>
         ELSE /\ title_postings_list' =
                   AppendPostings(p.Title, docID, title_postings_list)
              /\ abstract_postings_list' =
                   AppendPostings(p.Abstract, docID, abstract_postings_list)
              /\ IPC_dict' = (docID :> p.IPC) @@ IPC_dict
              /\ idx' = idx + 1
              /\ UNCHANGED <<pc, err>>
  /\ UNCHANGED <<files, docs, big_N, converted_title_postings_list,
                 converted_abstract_postings_list, docs_metadata, title_order,
                 abstract_order, dict_terms, disk, postings_file, dict_file,
                 scoreVars, rankVars>>

\* One turn of the loop of index_all_docs: index_doc on the next document.
IndexDoc ==
  /\ pc = "index"
  /\ idx <= Len(docs)
  /\ LET docID == docs[idx]
         p == files[docID]
     IN  IF p.kind = "malformed"
         THEN /\ pc' = "error"
              /\ err' = "ParseError"
              /\ UNCHANGED <<idx, title_postings_list, abstract_postings_list,
                             IPC_dict>>
         ELSE /\ title_postings_list' =
                   AppendPostings(p.Title, docID, title_postings_list)
              /\ abstract_postings_list' =
                   AppendPostings(p.Abstract, docID, abstract_postings_list)
              /\ IPC_dict' = (docID :> p.IPC) @@ IPC_dict
              /\ idx' = idx + 1
              /\ UNCHANGED <<pc, err>>
  /\ UNCHANGED <<files, docs, big_N, converted_title_postings_list,
                 converted_abstract_postings_list, docs_metadata, title_order,
                 abstract_order, dict_terms, disk, postings_file, dict_file,
                 scoreVars, rankVars>>

\* index_all_docs returns; both preliminary lists are converted.
ConvertPreliminaryPostings ==
  /\ pc = "index"
  /\ idx > Len(docs)
  /\ converted_title_postings_list' =
       convert_preliminary_postings(title_postings_list)
  /\ converted_abstract_postings_list' =
       convert_preliminary_postings(abstract_postings_list)
  /\ pc' = "metadata"
  /\ UNCHANGED <<files, err, docs, big_N, idx, title_postings_list,
                 abstract_postings_list, IPC_dict, docs_metadata, title_order,
                 abstract_order, dict_terms, disk, postings_file, dict_file,
                 scoreVars, rankVars>>

CalculateMetadata ==
  /\ pc = "metadata"
  /\ LET r == calculate_metadata(converted_title_postings_list,
                                 converted_abstract_postings_list, IPC_dict)
     IN  IF IsError(r)
         THEN pc' = "error" /\ err' = r.error /\ UNCHANGED docs_metadata
         ELSE pc' = "write" /\ docs_metadata' = r.val /\ UNCHANGED err
  /\ UNCHANGED <<files, docs, big_N, idx, title_postings_list,
                 abstract_postings_list, IPC_dict,
                 converted_title_postings_list,
                 converted_abstract_postings_list, title_order, abstract_order,
                 dict_terms, disk, postings_file, dict_file, scoreVars, rankVars>>

\* write_postings; each dict is iterated in an order of its own.
WritePostings ==
  /\ pc = "write"
  /\ \E t_order \in Perms(DOMAIN converted_title_postings_list),
        a_order \in Perms(DOMAIN converted_abstract_postings_list) :
       LET w == write_postings(converted_title_postings_list,
                               converted_abstract_postings_list,
                               t_order, a_order, big_N)
       IN  /\ title_order' = t_order
           /\ abstract_order' = a_order
           /\ postings_file' = w.file
           /\ dict_terms' = w.dict_terms
  /\ disk' = disk \cup {"postings"}
  /\ pc' = "dictionary"
  /\ UNCHANGED <<files, err, docs, big_N, idx, title_postings_list,
                 abstract_postings_list, IPC_dict,
                 converted_title_postings_list,
                 converted_abstract_postings_list, docs_metadata, dict_file,
                 scoreVars, rankVars>>

\* create_dictionary: json.dump((docs_metadata, dict_terms), dict_file).  The
\* dumped structure is the one json.load gives back.
CreateDictionary ==
  /\ pc = "dictionary"
  /\ dict_file' = <<docs_metadata, dict_terms>>
  /\ disk' = disk \cup {"dictionary"}
  /\ pc' = "built"
  /\ UNCHANGED <<files, err, docs, big_N, idx, title_postings_list,
                 abstract_postings_list, IPC_dict,
                 converted_title_postings_list,
                 converted_abstract_postings_list, docs_metadata, title_order,
                 abstract_order, dict_terms, postings_file, scoreVars, rankVars>>

\* ------------------------------------------------ search.py process_queries
\* Lines 131-170: load the dictionary, read the query, score both fields,
\* divide by the norms and combine.
process_queries(q) ==
  /\ pc = "built"
  /\ LET metadata == dict_file[1]
           dictionary == dict_file[2]
           t == AccumulateField(<<>>, dictionary, postings_file, q.title,
                                q.title, "Title")
           tErrors == NormErrors(t.val, metadata, 1)
           d == AccumulateField(<<>>, dictionary, postings_file, q.description,
                                q.description, "Abstract")
           dErrors == NormErrors(d.val, metadata, 2)
           fail(e) == /\ pc' = "error"
                      /\ err' = e
                      /\ UNCHANGED <<title_acc, title_scores, description_acc,
                                     description_scores, doc_scores>>
       IN  /\ query' = q
           /\ IF IsError(t) THEN fail(t.error)
              ELSE IF tErrors # {} THEN \E e \in tErrors : fail(e)
              ELSE IF IsError(d) THEN fail(d.error)
              ELSE IF dErrors # {} THEN \E e \in dErrors : fail(e)
              ELSE /\ title_acc' = t.val
                   /\ title_scores' = NormalizeField(t.val, metadata, 1)
                   /\ description_acc' = d.val
                   /\ description_scores' = NormalizeField(d.val, metadata, 2)
                   /\ doc_scores' = CombineScores(title_scores', description_scores',
                                                  metadata)
                   /\ pc' = "scored"
                   /\ UNCHANGED err
  /\ UNCHANGED <<files, buildVars, rankVars>>

\* A query of at most MaxQueryTokens tokens in both fields together.
ScoreQuery == \E q \in Queries : process_queries(q)

\* A query of at most MaxRepeatTokens tokens in one field, none in the other.
ScoreRepeatedQuery == \E q \in RepeatQueries : process_queries(q)

\* Line 172: results = docIDs_decreasing_score(doc_scores)
Rank ==
  /\ pc = "scored"
  /\ \E order \in DictOrders(DOMAIN doc_scores) :
       results' = docIDs_decreasing_score(doc_scores, order)
  /\ pc' = "ranked"
  /\ UNCHANGED <<files, err, buildVars, scoreVars, expanded_results, output>>

\* Lines 173-177: expand_query and the output line.
ExpandQuery ==
  /\ pc = "ranked"
  /\ \E order \in DictOrders(DOMAIN dict_file[1]) :
       expanded_results' = expand_query(results, doc_scores, dict_file[1], order)
  /\ output' = OutputLine(expanded_results')
  /\ disk' = disk \cup {"output"}
  /\ pc' = "done"
  /\ UNCHANGED <<files, err, docs, big_N, idx, title_postings_list,
                 abstract_postings_list, IPC_dict,
                 converted_title_postings_list,
                 converted_abstract_postings_list, docs_metadata, title_order,
                 abstract_order, dict_terms, postings_file, dict_file,
                 scoreVars, results>>

Next ==
  \/ LoadAllDocNames
  \/ IndexDoc
  \/ ConvertPreliminaryPostings
  \/ CalculateMetadata
  \/ WritePostings
  \/ CreateDictionary
  \/ ScoreQuery
  \/ Rank
  \/ ExpandQuery

Spec == Init /\ [][Next]_vars

\* index.py alone.
NextBuild ==
  \/ LoadAllDocNames
  \/ IndexDoc
  \/ ConvertPreliminaryPostings
  \/ CalculateMetadata
  \/ WritePostings
  \/ CreateDictionary

SpecBuild == Init /\ [][NextBuild]_vars

\* index.py, then search.py up to the combined scores (line 170).
NextScore == NextBuild \/ ScoreQuery

SpecScore == InitScore /\ [][NextScore]_vars

\* index.py, then search.py up to line 170 for a query that repeats a term.
NextRepeat == NextBuild \/ ScoreRepeatedQuery

SpecRepeat == InitScore /\ [][NextRepeat]_vars

\* search.py from the combined scores on (lines 172-177), large corpora.
NextLarge == Rank \/ ExpandQuery

SpecLarge == InitLarge /\ [][NextLarge]_vars

\* ------------------------------------------------------------------ claims
Fields == {"Title", "Abstract"}

\* The members of the directory that are files, and those that are patents.
FileNames == {n \in DOMAIN files : files[n].kind # "dir"}
PatentNames == {n \in DOMAIN files : files[n].kind = "patent"}

FieldTokens(n, field) == IF field = "Title" THEN files[n].Title ELSE files[n].Abstract

Converted(field) ==
  IF field = "Title" THEN converted_title_postings_list
  ELSE converted_abstract_postings_list

Preliminary(field) ==
  IF field = "Title" THEN title_postings_list ELSE abstract_postings_list

C2_TiesAscending ==
  pc \in {"ranked", "done"} =>
    \A i, j \in 1..Len(results) :
      i < j =>
        \/ FLess(doc_scores[results[j]], doc_scores[results[i]])
        \/ /\ doc_scores[results[j]] = doc_scores[results[i]]
           /\ StrLess(results[i], results[j])

\* C3: the result of expand_query holds exactly the documents of the metadata
\* whose class is the class of one of the first 20 ranked documents (of all of
\* them when there are fewer), each once.
C3_ExpandedSet ==
  pc = "done" =>
    LET metadata == dict_file[1]
        top == {results[i] : i \in 1..Min(TopN, Len(results))}
        classes == {metadata[d][3] : d \in top}
    IN  /\ Range(expanded_results) =
             {d \in DOMAIN metadata : metadata[d][3] \in classes}
        /\ \A i, j \in 1..Len(expanded_results) :
             expanded_results[i] = expanded_results[j] => i = j

\* More than 20 documents are ranked and the class of a document ranked
\* after the 20th is left out.
C3_Witness ==
  /\ pc = "done"
  /\ Len(results) > TopN
  /\ \E i \in (TopN + 1)..Len(results) : results[i] \notin Range(expanded_results)
  /\ expanded_results # <<>>

\* C4: the combined score map has exactly the DocumentIDs of the metadata as
\* keys, and each value is 0.05 * title score + 0.95 * description score with
\* a missing field score counted as 0; a document with no field score has 0.
C4_CombinedScores ==
  pc = "scored" =>
    LET T(d) == IF d \in DOMAIN title_scores THEN title_scores[d] ELSE FZero
        D(d) == IF d \in DOMAIN description_scores THEN description_scores[d]
                ELSE FZero
    IN  /\ DOMAIN doc_scores = DOMAIN dict_file[1]
        /\ \A d \in DOMAIN doc_scores :
             /\ doc_scores[d] = FAdd(FMul(TitleWeight, T(d)),
                                     FMul(DescriptionWeight, D(d)))
             /\ (d \notin DOMAIN title_scores /\ d \notin DOMAIN description_scores)
                  => doc_scores[d] = FZero

\* One document scores in both fields and another in none.
C4_Witness ==
  /\ pc = "scored"
  /\ \E d \in DOMAIN doc_scores :
       /\ d \in DOMAIN title_scores /\ title_scores[d] # FZero
       /\ d \in DOMAIN description_scores /\ description_scores[d] # FZero
  /\ \E d \in DOMAIN doc_scores :
       d \notin DOMAIN title_scores /\ d \notin DOMAIN description_scores

RECURSIVE StoredWeight(_, _)
\* The sum of the weights that a postings list read from the store holds for
\* a document (one weight, when the document has one posting).
StoredWeight(postings, docID) ==
  IF Len(postings) = 0 THEN FZero
  ELSE IF postings[1][1] = docID
       THEN FAdd(postings[1][2], StoredWeight(Tail(postings), docID))
       ELSE StoredWeight(Tail(postings), docID)

SingleTermScores(terms, acc, field) ==
  Cardinality(Range(terms)) = 1 =>
    LET r == read_postings(terms[1], dict_file[2], postings_file, field)
    IN  /\ ~IsError(r)
        /\ DOMAIN acc = {r.val[i][1] : i \in 1..Len(r.val)}
        /\ \A d \in DOMAIN acc : acc[d] = StoredWeight(r.val, d)

\* C5: when the token list of a field of the query has one distinct term,
\* however often, the score of the field before the division by the norm is
\* the stored weight of the term for each document of its postings, and no
\* other document has a score for the field.
C5_SingleDistinctTerm ==
  pc = "scored" =>
    /\ SingleTermScores(query.title, title_acc, "Title")
    /\ SingleTermScores(query.description, description_acc, "Abstract")

AbsentFrom(term, field) == term \notin DOMAIN dict_file[2][field]

\* C6: for a term that is not in the directory of a field, read_postings
\* returns the empty list and update_relevance returns the scores unchanged,
\* with no error; a query whose terms are all absent from both directories
\* is scored without error and gives every document the combined score 0.
C6_AbsentTerm ==
  "dictionary" \in disk =>
    /\ \A field \in Fields : \A term \in Terms :
         AbsentFrom(term, field) =>
           /\ read_postings(term, dict_file[2], postings_file, field) = Ok(<<>>)
           /\ \A single \in BOOLEAN :
                update_relevance(title_acc, dict_file[2], postings_file,
                                 <<term, term>>, term, single, field)
                  = Ok(title_acc)
    /\ (\A term \in Range(query.title) \cup Range(query.description) :
          \A field \in Fields : AbsentFrom(term, field))
         => /\ pc # "error"
            /\ pc = "scored" => \A d \in DOMAIN doc_scores : doc_scores[d] = FZero

\* A non-empty query of absent terms is scored over a non-empty corpus.
C6_Witness ==
  /\ pc = "scored"
  /\ Len(query.title) + Len(query.description) > 0
  /\ \A term \in Range(query.title) \cup Range(query.description) :
       \A field \in Fields : AbsentFrom(term, field)
  /\ DOMAIN doc_scores # {}
  /\ \A d \in DOMAIN doc_scores : doc_scores[d] = FZero

\* x rounded to FracDigits fractional digits.
RoundStored(x) ==
  LET unit == 10^(12 - FracDigits)
      r == x.l % unit
      l2 == (x.l - r) + (IF 2 * r >= unit THEN unit ELSE 0)
  IN  Float(x.h + l2 \div LUnit, l2 % LUnit)

\* C7: for every field and term written by write_postings, read_postings with
\* the returned directory gives back the postings of the term, in order, each
\* weight rounded to the 9 stored digits, and nothing else.
C7_RoundTrip ==
  "postings" \in disk =>
    \A field \in Fields : \A term \in DOMAIN Converted(field) :
      LET p == Converted(field)[term]
      IN  read_postings(term, dict_terms, postings_file, field)
            = Ok([i \in 1..Len(p) |-> <<p[i][1], RoundStored(p[i][2])>>])

\* The directory entries in the order write_postings made them.
WrittenEntries ==
  [i \in 1..(Len(title_order) + Len(abstract_order)) |->
     IF i <= Len(title_order) THEN dict_terms.Title[title_order[i]]
     ELSE dict_terms.Abstract[abstract_order[i - Len(title_order)]]]

\* C8: over the entries of both fields in write order the offsets strictly
\* increase, every length is positive and ends just before a line break, and
\* no two byte ranges overlap.
C8_OffsetsDisjoint ==
  "postings" \in disk =>
    LET e == WrittenEntries
    IN  /\ DOMAIN dict_terms.Title = Range(title_order)
        /\ DOMAIN dict_terms.Abstract = Range(abstract_order)
        /\ \A i, j \in 1..Len(e) : i < j => e[i][1] < e[j][1]
        /\ \A i \in 1..Len(e) :
             /\ e[i][2] > 0
             /\ e[i][1] + e[i][2] < Len(postings_file)
             /\ postings_file[e[i][1] + e[i][2] + 1] = "\n"
             /\ \A b \in (e[i][1] + 1)..(e[i][1] + e[i][2]) : postings_file[b] # "\n"
        /\ \A i, j \in 1..Len(e) :
             i # j => \/ e[i][1] + e[i][2] <= e[j][1]
                      \/ e[j][1] + e[j][2] <= e[i][1]

\* Both fields have an entry.
C8_Witness ==
  /\ "postings" \in disk
  /\ Len(title_order) >= 1
  /\ Len(abstract_order) >= 1

\* The number of documents whose token list of the field holds the term.
DocumentFrequency(term, field) ==
  Cardinality({n \in PatentNames : term \in Range(FieldTokens(n, field))})

\* C9: every directory entry holds idf = log10(N / df) for N the number of
\* documents and df the number of documents that hold the term in the field;
\* 1 <= df <= N, so idf >= 0, and idf = 0 exactly when df = N.
C9_Idf ==
  "postings" \in disk =>
    \A field \in Fields : \A term \in DOMAIN dict_terms[field] :
      LET N == Cardinality(FileNames)
          df == DocumentFrequency(term, field)
          idf == dict_terms[field][term][3]
      IN  /\ 1 <= df /\ df <= N
          /\ idf = FSub(Log10(N), Log10(df))
          /\ ~FLess(idf, FZero)
          /\ idf = FZero <=> df = N

\* One term is in every document and another is not.
C9_Witness ==
  /\ "postings" \in disk
  /\ \E field \in Fields : \E term \in DOMAIN dict_terms[field] :
       dict_terms[field][term][3] = FZero
  /\ \E field \in Fields : \E term \in DOMAIN dict_terms[field] :
       FLess(FZero, dict_terms[field][term][3])

\* C10: when every member parses and a patent has no token in a field, the
\* build does not fail, the patent has no posting in the field, and its
\* metadata holds norm 0 for the field, the norm of the other field and its
\* class.
C10_EmptyField ==
  LET norm(field, n) ==
        FSqrt(SumSquares(Converted(field), DOMAIN Converted(field), n))
      ok(field, col, other, otherCol) ==
        \A n \in PatentNames :
          Len(FieldTokens(n, field)) = 0 =>
            /\ pc # "error"
            /\ pc \in {"write", "dictionary", "built"} =>
                 /\ n \notin PostedDocs(Converted(field))
                 /\ docs_metadata[n][col] = FZero
                 /\ docs_metadata[n][otherCol] = norm(other, n)
                 /\ docs_metadata[n][3] = files[n].IPC
  IN  (\A n \in DOMAIN files : files[n].kind # "malformed") =>
        /\ ok("Title", 1, "Abstract", 2)
        /\ ok("Abstract", 2, "Title", 1)

\* C11: scoring over a built index never divides by a norm of 0: the run
\* does not stop with ZeroDivisionError, every document with a field score
\* has a norm above 0 for the field, and a document whose norm for a field
\* is 0 counts 0 for the field.
C11_NoZeroNormDivision ==
  "dictionary" \in disk =>
    /\ err # "ZeroDivisionError"
    /\ pc = "scored" =>
         \A d \in DOMAIN dict_file[1] :
           /\ d \in DOMAIN title_scores => FLess(FZero, dict_file[1][d][1])
           /\ d \in DOMAIN description_scores => FLess(FZero, dict_file[1][d][2])
           /\ dict_file[1][d][1] = FZero => Get(title_scores, d) = FZero
           /\ dict_file[1][d][2] = FZero => Get(description_scores, d) = FZero

RECURSIVE DistinctTermSum(_, _, _, _)
\* The sum over the terms of the set todo that have a posting for docID of
\* docWeight * ((1 + log10(tfQuery)) * idf).
DistinctTermSum(todo, terms, field, docID) ==
  IF todo = {} THEN FZero
  ELSE LET term == CHOOSE t \in todo : TRUE
           r == read_postings(term, dict_file[2], postings_file, field)
           rest == DistinctTermSum(todo \ {term}, terms, field, docID)
       IN  IF docID \in {r.val[i][1] : i \in 1..Len(r.val)}
           THEN FAdd(FMul(StoredWeight(r.val, docID),
                          FMul(FAdd(FOne, Log10(CountOf(term, terms))),
                               dict_file[2][field][term][3])),
                     rest)
           ELSE rest

DistinctTermScores(terms, acc, field) ==
  Cardinality(Range(terms)) > 1 =>
    LET posted(term) ==
          LET r == read_postings(term, dict_file[2], postings_file, field)
          IN  {r.val[i][1] : i \in 1..Len(r.val)}
    IN  /\ DOMAIN acc = UNION {posted(term) : term \in Range(terms)}
        /\ \A d \in DOMAIN acc :
             acc[d] = DistinctTermSum(Range(terms), terms, field, d)

\* C12: when the token list of a field of the query has more than one
\* distinct term, the score of the field before the division by the norm is,
\* for each document, the sum over the distinct terms with a posting for it
\* of docWeight * (1 + log10(tfQuery)) * idf: a term that is repeated in the
\* query is added once.
C12_DistinctTermsOnce ==
  pc = "scored" =>
    /\ DistinctTermScores(query.title, title_acc, "Title")
    /\ DistinctTermScores(query.description, description_acc, "Abstract")

Converted_done == pc \in {"metadata", "write", "dictionary", "built"}

PostingsOf(field, term) ==
  IF term \in DOMAIN Converted(field) THEN Converted(field)[term] ELSE <<>>

\* C13: after the build has converted the postings, for every field, term
\* and document the list of the term has a posting for the document exactly
\* when the term is in the token list of that field of the document; the
\* posting is the only one and its weight is 1 + log10(tf), tf the number of
\* occurrences of the term in that token list.
C13_PostingWeights ==
  Converted_done =>
    \A field \in Fields : \A term \in Terms :
      LET p == PostingsOf(field, term)
      IN  /\ term \in DOMAIN Converted(field) => Len(p) > 0
          /\ \A i \in 1..Len(p) : p[i][1] \in PatentNames
          /\ \A n \in PatentNames :
               LET hits == {i \in 1..Len(p) : p[i][1] = n}
                   tf == CountOf(term, FieldTokens(n, field))
               IN  /\ hits # {} <=> tf > 0
                   /\ Cardinality(hits) <= 1
                   /\ \A i \in hits : p[i][2] = FAdd(FOne, Log10(tf))

\* A document repeats a term in its Title and has it not in its Abstract,
\* where another term is.
C13_Witness ==
  /\ pc = "write"
  /\ \E n \in PatentNames : \E term \in Terms :
       /\ CountOf(term, files[n].Title) = 2
       /\ CountOf(term, files[n].Abstract) = 0
       /\ Len(files[n].Abstract) > 0

\* C14: the result of expand_query is in non-increasing score order, the
\* score of a candidate being its combined score, or 0 when it has none.
C14_ExpandedNonIncreasing ==
  pc = "done" =>
    \A i, j \in 1..Len(expanded_results) :
      i < j => ~FLess(Get(doc_scores, expanded_results[i]),
                      Get(doc_scores, expanded_results[j]))

\* The candidate with the highest score is returned first although it is
\* not the first of the metadata in ascending or in descending order, and a
\* candidate with a lower score follows.
C14_Witness ==
  /\ pc = "done"
  /\ Len(expanded_results) > TopN
  /\ expanded_results[1] \notin {NameOfIndex(1), NameOfIndex(Len(expanded_results))}
  /\ FLess(doc_scores[expanded_results[2]], doc_scores[expanded_results[1]])

\* Every file of the directory has been indexed and the metadata computed.
AllIndexed ==
  /\ idx > Len(docs)
  /\ Range(docs) = FileNames
  /\ DOMAIN IPC_dict = FileNames
  /\ DOMAIN docs_metadata = FileNames

\* What is on disk describes the whole corpus.
IndexComplete ==
  /\ "postings" \in disk =>
       /\ AllIndexed
       /\ \A field \in Fields : DOMAIN dict_terms[field] = DOMAIN Converted(field)
  /\ "dictionary" \in disk =>
       /\ "postings" \in disk
       /\ dict_file = <<docs_metadata, dict_terms>>
  /\ pc = "error" => disk = {}

\* The postings file is made by write_postings and the dictionary file by
\* create_dictionary after it.
WriteOrder ==
  disk' # disk =>
    \/ /\ pc = "write" /\ pc' = "dictionary" /\ AllIndexed
       /\ disk = {} /\ disk' = {"postings"}
    \/ /\ pc = "dictionary" /\ pc' = "built"
       /\ disk = {"postings"} /\ disk' = {"postings", "dictionary"}

\* C15: in every run of the build the postings file is made only after every
\* document has been indexed and the metadata computed, the dictionary file
\* only after the postings of both fields have been written, and a build
\* that stops with an error has made neither file.
C15_NoPartialIndex == [](IndexComplete) /\ [][WriteOrder]_vars

\* The build stopped at a document that does not parse after it had indexed
\* another one.
C15_Witness ==
  /\ pc = "error"
  /\ err = "ParseError"
  /\ idx > 1
  /\ disk = {}

\* C16: after a successful build the metadata has exactly one entry per
\* document of the corpus, every DocumentID of a posting of either field has
\* an entry, and scoring a query never looks up a document that the
\* metadata lacks.
C16_MetadataComplete ==
  "dictionary" \in disk =>
    /\ DOMAIN dict_file[1] = FileNames
    /\ \A field \in Fields : \A term \in DOMAIN Converted(field) :
         \A i \in 1..Len(Converted(field)[term]) :
           Converted(field)[term][i][1] \in DOMAIN dict_file[1]
    /\ err # "KeyError"

====
